---- MODULE Spec2Model ----
(***************************************************************************)
(* A model of the two scripts of the repository:                           *)
(*   scripts/process_rap.py            (module-level pipeline)             *)
(*   scripts/convert_borders_to_lcc.py (main and its helpers)              *)
(*                                                                         *)
(* Planar (LCC) coordinates are integers.  A projection is represented by  *)
(* its configuration record (lat_1, lat_2, lat_0, lon_0, a, b): the model  *)
(* does not compute the conic formulas, it records which configuration    *)
(* produced each set of planar coordinates.  The RAP grid is regular in    *)
(* its own LCC plane, so a projected grid is an origin plus a column step  *)
(* sx and a row step sy.  A region geometry is an axis-aligned rectangle.  *)
(* Centroids are kept doubled (2*cx, 2*cy) so that half cells stay         *)
(* integral.  The linear argument of the logistic model is kept in         *)
(* millionths.                                                             *)
(***************************************************************************)
EXTENDS Integers, Sequences, FiniteSets, TLC

\* ------------------------------------------------------------ bounds
MaxRows == 3
MaxCols == 3
MaxOff == 2
MaxCells == 3

\* ------------------------------------------------------------ CONFIG
DATA_DIR == "data"
MAP_DIR == "map/data"
GRIB_PATH == "data/rap.grib2"
OUTPUT_JSON == "map/data/tornado_prob_lcc.json"
INPUT_CELLS == "map/data/tornado_prob_lcc.json"
OUTPUT_BORDERS == "map/data/us_borders_lcc.json"
OUTPUT_CELLS == "map/data/tornado_prob_lcc_filtered.json"

INTERCEPT == -14

\* COEFFS in millionths per field unit (2.88592370e-03, 2.38728498e-05,
\* 8.85192696e-03 rounded to the nearest millionth)
COEFFS == [CAPE |-> 2886, CIN |-> 24, HLCY |-> 8852]

Million == 1000 * 1000

Paths == {GRIB_PATH, OUTPUT_JSON, OUTPUT_BORDERS, OUTPUT_CELLS}

\* ------------------------------------------------------------ values
Absent == [kind |-> "absent"]
Empty == [kind |-> "empty"]
Unset == [kind |-> "unset"]

NaN == [nan |-> TRUE, v |-> 0]
Num(n) == [nan |-> FALSE, v |-> n]

Get(d, k, default) == IF k \in DOMAIN d THEN d[k] ELSE default

Abs(n) == IF n < 0 THEN -n ELSE n

\* ------------------------------------------------------------ geometry
\* shapely.geometry.box(minx, miny, maxx, maxy)
box(minx, miny, maxx, maxy) ==
    [x1 |-> minx, y1 |-> miny, x2 |-> maxx, y2 |-> maxy]

\* cell.centroid, doubled: the centre of the box
centroid(b) == <<b.x1 + b.x2, b.y1 + b.y2>>

\* prepared_conus.contains(point): the point lies in the interior of the
\* geometry (a point on the boundary is not contained); p2 is doubled
contains(g, p2) ==
    /\ 2 * g.x1 < p2[1] /\ p2[1] < 2 * g.x2
    /\ 2 * g.y1 < p2[2] /\ p2[2] < 2 * g.y2

\* poly.intersects(us_geom): the closed sets share a point (boundary or
\* interior)
intersects(b, g) ==
    /\ b.x1 <= g.x2 /\ g.x1 <= b.x2
    /\ b.y1 <= g.y2 /\ g.y1 <= b.y2

\* ------------------------------------------------------------ state
VARIABLES
    world,      \* what the run finds outside itself: the HEAD status of
                \* RAP_URL, the remote GRIB, the regions, RAP_FILE
    dirs,       \* directories that exist
    fs,         \* file contents by path
    fs0,        \* fs and dirs when process_rap.py started (history)
    dirs0,
    requests,   \* HTTP requests issued so far
    pcRap,      \* position of process_rap.py
    exit_code,  \* its exit status (-1 while running)
    cape, cin, hlcy,      \* process_rap.py module-level arrays
    params, proj_lcc,
    x_vals, y_vals,
    linear, prob,
    conus_lcc,            \* the reprojected mask and the configuration used
    features,
    feat_idx,             \* history: the grid index of each feature
    n_done,               \* iterations of the filter loop completed
    dx, dy,               \* the loop's dx, dy after its last iteration
    pcMain,     \* position of convert_borders_to_lcc.py main
    fsM0,       \* fs when main started (history)
    rap_crs, us_geom, cells,
    loaded,     \* history: what load_cells returned
    filtered    \* history: what filter_cells returned

gridVars == <<cape, cin, hlcy, params, proj_lcc, x_vals, y_vals, linear,
              prob>>
loopVars == <<conus_lcc, features, feat_idx, n_done, dx, dy>>
rapVars == <<pcRap, exit_code, gridVars, loopVars>>
mainVars == <<pcMain, fsM0, rap_crs, us_geom, cells, loaded, filtered>>
vars == <<world, dirs, fs, fs0, dirs0, requests, rapVars, mainVars>>

\* ------------------------------------------------------------ process_rap.py
\* a variant of url_exists that takes every status but 404 for a file
url_exists_not_404(status) == status # 404

\* r = requests.head(url); return r.status_code == 200
url_exists(status) == status = 200

\* pick_var: a message with that short name (and level) is in the file
pick_var(grbs, shortname) == shortname \in grbs.vars

\* np.nan_to_num: NaN becomes 0, a number stays
nan_to_num(v) == IF v.nan THEN 0 ELSE v.v

\* the value of a GRIB message at grid index (i, j): the message carries
\* two values, laid out as a checkerboard
ValueAt(pair, i, j) == pair[((i + j) % 2) + 1]

\* the index sets of a 2-D array of n rows or columns
Indices(n) == 0 .. n - 1

RequiredKeys == {"lat_1", "lat_2", "lat_0", "lon_0"}

\* Proj(proj="lcc", lat_1=params["lat_1"], ..., a=params.get("a", 6371229),
\* b=params.get("b", 6371229)): the configuration of the projector
Proj(p) ==
    [lat_1 |-> p.lat_1, lat_2 |-> p.lat_2, lat_0 |-> p.lat_0,
     lon_0 |-> p.lon_0,
     a |-> Get(p, "a", 6371229), b |-> Get(p, "b", 6371229)]

\* x_vals, y_vals = proj_lcc(lons, lats): the grid in its own LCC plane
GridX(g, i, j) == j * g.sx
GridY(g, i, j) == i * g.sy

\* linear = INTERCEPT + COEFFS["CAPE"]*cape + COEFFS["CIN"]*cin
\*          + COEFFS["HLCY"]*hlcy, in millionths
Linear(c, n, h) ==
    INTERCEPT * Million + COEFFS.CAPE * c + COEFFS.CIN * n + COEFFS.HLCY * h

\* prob = 1 / (1 + np.exp(-linear)) in float64: exp(-linear) overflows to
\* inf above 709.78, giving 0.0; 1 + exp(-linear) rounds to 1 once
\* exp(-linear) < 2^-53 (linear > 36.7368), giving 1.0
Sigmoid(lin) ==
    IF lin > 36736801 THEN [p |-> "1.0"]
    ELSE IF lin < -709782712 THEN [p |-> "0.0"]
    ELSE [p |-> "open", logit |-> lin]

\* Python's index k into a sequence of length n (negative k counts from
\* the end)
PyIdx(k, n) == IF k < 0 THEN k + n ELSE k

\* a variant of the loop that runs over the columns first
LoopIndexColumnMajor(n, rows, cols) == <<n % rows, n \div rows>>

\* for i in range(rows): for j in range(cols): the n-th index visited
LoopIndex(n, rows, cols) == <<n \div cols, n % cols>>

\* a variant of cell_dx without the abs
cell_dx_signed(xv, i, j, cols) ==
    LET x == xv[i][j]
    IN  IF j < cols - 1 THEN xv[i][j + 1] - x
        ELSE x - xv[i][PyIdx(j - 1, cols)]

\* dx = x_vals[i, j+1] - x if j < cols-1 else x - x_vals[i, j-1]; abs(dx)
cell_dx(xv, i, j, cols) ==
    LET x == xv[i][j]
    IN  Abs(IF j < cols - 1 THEN xv[i][j + 1] - x
            ELSE x - xv[i][PyIdx(j - 1, cols)])

\* dy = y_vals[i+1, j] - y if i < rows-1 else y - y_vals[i-1, j]; abs(dy)
cell_dy(yv, i, j, rows) ==
    LET y == yv[i][j]
    IN  Abs(IF i < rows - 1 THEN yv[i + 1][j] - y
            ELSE y - yv[PyIdx(i - 1, rows)][j])

\* a variant of the strict test with the condition inverted
strict_keeps_outside(cell, conus) == ~contains(conus, centroid(cell))

\* STRICT: keep only if centroid inside CONUS
strict_keeps(cell, conus) == contains(conus, centroid(cell))

\* rows, cols = prob.shape
Rows == Cardinality(DOMAIN prob)
Cols == IF Rows = 0 THEN 0 ELSE Cardinality(DOMAIN prob[0])

RapTerminal == pcRap \in {"not_ready", "failed", "done"}

\* os.makedirs(DATA_DIR, exist_ok=True); os.makedirs("map/data", exist_ok=True)
RapMakedirs ==
    /\ pcRap = "start"
    /\ dirs' = dirs \cup {DATA_DIR, MAP_DIR}
    /\ pcRap' = "check"
    /\ UNCHANGED <<world, fs, fs0, dirs0, requests, exit_code, gridVars,
                   loopVars, mainVars>>

\* if not url_exists(RAP_URL): print(...); exit(0)
RapNotReady ==
    /\ pcRap = "check"
    /\ ~url_exists(world.status)
    /\ requests' = requests \cup {"HEAD rap"}
    /\ pcRap' = "not_ready"
    /\ exit_code' = 0
    /\ UNCHANGED <<world, dirs, fs, fs0, dirs0, gridVars, loopVars, mainVars>>

RapAvailable ==
    /\ pcRap = "check"
    /\ url_exists(world.status)
    /\ requests' = requests \cup {"HEAD rap"}
    /\ pcRap' = "download"
    /\ UNCHANGED <<world, dirs, fs, fs0, dirs0, exit_code, gridVars,
                   loopVars, mainVars>>

\* urllib.request.urlretrieve(RAP_URL, GRIB_PATH); it raises on a network
\* error, which ends the run with a traceback (exit status 1)
RapDownload ==
    /\ pcRap = "download"
    /\ requests' = requests \cup {"GET rap"}
    /\ \/ /\ fs' = [fs EXCEPT ![GRIB_PATH] =
                        [kind |-> "grib", msg |-> world.grib]]
          /\ pcRap' = "load"
          /\ UNCHANGED exit_code
       \/ /\ pcRap' = "failed"
          /\ exit_code' = 1
          /\ UNCHANGED fs
    /\ UNCHANGED <<world, dirs, fs0, dirs0, gridVars, loopVars, mainVars>>

\* grbs = pygrib.open(GRIB_PATH); the three pick_var calls (RuntimeError
\* when a variable is missing); np.nan_to_num of the three value arrays
RapPickVars ==
    /\ pcRap = "load"
    /\ LET grbs == fs[GRIB_PATH].msg
       IN  IF /\ pick_var(grbs, "cape")
              /\ pick_var(grbs, "cin")
              /\ pick_var(grbs, "hlcy")
           THEN /\ cape' = [i \in Indices(grbs.rows) |->
                               [j \in Indices(grbs.cols) |->
                                   nan_to_num(ValueAt(grbs.cape, i, j))]]
                /\ cin' = [i \in Indices(grbs.rows) |->
                              [j \in Indices(grbs.cols) |->
                                  nan_to_num(ValueAt(grbs.cin, i, j))]]
                /\ hlcy' = [i \in Indices(grbs.rows) |->
                               [j \in Indices(grbs.cols) |->
                                   nan_to_num(ValueAt(grbs.hlcy, i, j))]]
                /\ pcRap' = "project"
                /\ UNCHANGED exit_code
           ELSE /\ pcRap' = "failed"
                /\ exit_code' = 1
                /\ UNCHANGED <<cape, cin, hlcy>>
    /\ UNCHANGED <<world, dirs, fs, fs0, dirs0, requests, params, proj_lcc,
                   x_vals, y_vals, linear, prob, loopVars, mainVars>>

\* lats, lons = cape_msg.latlons(); params = cape_msg.projparams;
\* proj_lcc = Proj(...) (KeyError when a required key is missing);
\* x_vals, y_vals = proj_lcc(lons, lats)
RapProject ==
    /\ pcRap = "project"
    /\ LET grbs == fs[GRIB_PATH].msg
       IN  /\ params' = grbs.params
           /\ IF RequiredKeys \subseteq DOMAIN grbs.params
              THEN /\ proj_lcc' = Proj(grbs.params)
                   /\ x_vals' = [i \in Indices(grbs.rows) |->
                                    [j \in Indices(grbs.cols) |->
                                        GridX(grbs, i, j)]]
                   /\ y_vals' = [i \in Indices(grbs.rows) |->
                                    [j \in Indices(grbs.cols) |->
                                        GridY(grbs, i, j)]]
                   /\ pcRap' = "prob"
                   /\ UNCHANGED exit_code
              ELSE /\ pcRap' = "failed"
                   /\ exit_code' = 1
                   /\ UNCHANGED <<proj_lcc, x_vals, y_vals>>
    /\ UNCHANGED <<world, dirs, fs, fs0, dirs0, requests, cape, cin, hlcy,
                   linear, prob, loopVars, mainVars>>

\* linear = ...; prob = 1 / (1 + np.exp(-linear))
RapProb ==
    /\ pcRap = "prob"
    /\ LET lin == [i \in DOMAIN cape |->
                      [j \in DOMAIN cape[i] |->
                          Linear(cape[i][j], cin[i][j], hlcy[i][j])]]
       IN  /\ linear' = lin
           /\ prob' = [i \in DOMAIN lin |->
                         [j \in DOMAIN lin[i] |-> Sigmoid(lin[i][j])]]
    /\ pcRap' = "shapefiles"
    /\ UNCHANGED <<world, dirs, fs, fs0, dirs0, requests, exit_code, cape,
                   cin, hlcy, params, proj_lcc, x_vals, y_vals, loopVars,
                   mainVars>>

\* countries = download_shapefile(COUNTRIES_URL, "tmp_countries");
\* lakes = download_shapefile(LAKES_URL, "tmp_lakes"); resp.raise_for_status()
\* raises on an HTTP error
RapShapefiles ==
    /\ pcRap = "shapefiles"
    /\ \/ /\ requests' = requests \cup {"GET countries", "GET lakes"}
          /\ dirs' = dirs \cup {"tmp_countries", "tmp_lakes"}
          /\ pcRap' = "mask"
          /\ UNCHANGED exit_code
       \/ /\ requests' = requests \cup {"GET countries"}
          /\ pcRap' = "failed"
          /\ exit_code' = 1
          /\ UNCHANGED dirs
    /\ UNCHANGED <<world, fs, fs0, dirs0, gridVars, loopVars, mainVars>>

\* usa, great_lakes, conus_geom = usa_geom.difference(lakes_geom);
\* conus_lcc = GeoSeries([conus_geom], crs="EPSG:4326").to_crs(proj_lcc.srs);
\* prepared_conus = prep(conus_lcc); features = []
RapMask ==
    /\ pcRap = "mask"
    /\ conus_lcc' = [geom |-> world.conus, crs |-> proj_lcc]
    /\ features' = <<>>
    /\ feat_idx' = <<>>
    /\ n_done' = 0
    /\ pcRap' = "filter"
    /\ UNCHANGED <<world, dirs, fs, fs0, dirs0, requests, exit_code,
                   gridVars, dx, dy, mainVars>>

\* the loop body's cell for the n-th index (i, j): x, y, dx, dy, prob
loop_cell(n) ==
    LET ij == LoopIndex(n, Rows, Cols)
        i == ij[1]
        j == ij[2]
    IN  [x |-> x_vals[i][j], y |-> y_vals[i][j],
         dx |-> cell_dx(x_vals, i, j, Cols),
         dy |-> cell_dy(y_vals, i, j, Rows),
         prob |-> prob[i][j]]

\* one iteration of the loop body, for the n_done-th index (i, j)
RapFilterCell ==
    /\ pcRap = "filter"
    /\ n_done < Rows * Cols
    /\ LET c == loop_cell(n_done)
           cell == box(c.x, c.y, c.x + c.dx, c.y + c.dy)
       IN  /\ dx' = c.dx
           /\ dy' = c.dy
           /\ IF strict_keeps(cell, conus_lcc.geom)
              THEN /\ features' = Append(features, c)
                   /\ feat_idx' = Append(feat_idx,
                                         LoopIndex(n_done, Rows, Cols))
              ELSE UNCHANGED <<features, feat_idx>>
    /\ n_done' = n_done + 1
    /\ UNCHANGED <<world, dirs, fs, fs0, dirs0, requests, pcRap, exit_code,
                   gridVars, conus_lcc, mainVars>>

\* the loop is over: print(f"Kept ..."); output = {...};
\* with open(OUTPUT_JSON, "w") as f: the file is created or truncated
RapOpenOutput ==
    /\ pcRap = "filter"
    /\ n_done = Rows * Cols
    /\ fs' = [fs EXCEPT ![OUTPUT_JSON] = Empty]
    /\ pcRap' = "dump"
    /\ UNCHANGED <<world, dirs, fs0, dirs0, requests, exit_code, gridVars,
                   loopVars, mainVars>>

\* json.dump(output, f); print("Done.")
RapDump ==
    /\ pcRap = "dump"
    /\ fs' = [fs EXCEPT ![OUTPUT_JSON] =
                [kind |-> "json",
                 doc |-> [forecast |-> "F01", projection |-> params,
                          features |-> features]]]
    /\ pcRap' = "done"
    /\ exit_code' = 0
    /\ UNCHANGED <<world, dirs, fs0, dirs0, requests, gridVars, loopVars,
                   mainVars>>

RapNext ==
    \/ RapMakedirs \/ RapNotReady \/ RapAvailable \/ RapDownload
    \/ RapPickVars \/ RapProject \/ RapProb \/ RapShapefiles \/ RapMask
    \/ RapFilterCell \/ RapOpenOutput \/ RapDump

\* ------------------------------------------------------------ convert_borders_to_lcc.py
\* get_rap_crs: the CRS built from the LambertConformal_Projection variable
\* of RAP_FILE, with +a=6371229 +b=6371229
get_rap_crs(nc) ==
    [lat_1 |-> nc.standard_parallel[1], lat_2 |-> nc.standard_parallel[2],
     lat_0 |-> nc.latitude_of_projection_origin,
     lon_0 |-> nc.longitude_of_central_meridian,
     a |-> 6371229, b |-> 6371229]

\* poly = box(c["x"], c["y"], c["x"] + dx, c["y"] + dy) with
\* dx = c.get("dx", 13545), dy = c.get("dy", 13545)
cell_poly(c) ==
    box(c.x, c.y, c.x + Get(c, "dx", 13545), c.y + Get(c, "dy", 13545))

\* a variant of the test of filter_cells that applies the strict policy
filter_keeps_centroid(c, us) == contains(us, centroid(cell_poly(c)))

\* if poly.intersects(us_geom): filtered.append(c)
filter_keeps(c, us) == intersects(cell_poly(c), us)

RECURSIVE filter_loop(_, _, _)
filter_loop(cs, us, acc) ==
    IF cs = <<>> THEN acc
    ELSE filter_loop(Tail(cs), us,
                     IF filter_keeps(Head(cs), us) THEN Append(acc, Head(cs))
                     ELSE acc)

filter_cells(cs, us) == filter_loop(cs, us, <<>>)

\* dist = (cx - x)**2 + (cy - y)**2 with cx = c["x"] + dx / 2,
\* cy = c["y"] + dy / 2; computed on doubled coordinates (4 * dist)
cell_dist(c, d2) ==
    LET cx2 == 2 * c.x + Get(c, "dx", 13545)
        cy2 == 2 * c.y + Get(c, "dy", 13545)
    IN  (cx2 - d2[1]) * (cx2 - d2[1]) + (cy2 - d2[2]) * (cy2 - d2[2])

\* closest_dist = 1e30: larger than every distance the model computes
closest_dist_init == [e30 |-> TRUE, v |-> 0]

\* a variant of the comparison that lets a later cell win a tie
nearer_or_equal(dist, closest_dist) ==
    closest_dist.e30 \/ dist <= closest_dist.v

\* if dist < closest_dist
nearer(dist, closest_dist) == closest_dist.e30 \/ dist < closest_dist.v

\* the first loop of highlight_dallas: the index (from 1) of closest after
\* the cells from k on have been visited, 0 for None
RECURSIVE closest_loop(_, _, _, _, _)
closest_loop(cs, d2, k, closest, closest_dist) ==
    IF k > Len(cs) THEN closest
    ELSE LET dist == cell_dist(cs[k], d2)
         IN  IF nearer(dist, closest_dist)
             THEN closest_loop(cs, d2, k + 1, k, [e30 |-> FALSE, v |-> dist])
             ELSE closest_loop(cs, d2, k + 1, closest, closest_dist)

\* c["highlight"] = value
set_highlight(c, value) ==
    [f \in DOMAIN c \cup {"highlight"} |->
        IF f = "highlight" THEN value ELSE c[f]]

\* highlight_dallas(cells, rap_crs), d2 the projected Dallas point (doubled)
highlight_dallas(cs, d2) ==
    LET closest == closest_loop(cs, d2, 1, 0, closest_dist_init)
    IN  [k \in 1 .. Len(cs) |->
            set_highlight(cs[k], closest # 0 /\ k = closest
                                 /\ DOMAIN cs[k] # {})]

MainFail ==
    /\ pcMain' = "failed"
    /\ UNCHANGED <<fsM0, rap_crs, us_geom, cells, loaded, filtered>>

\* if __name__ == "__main__": main(), run once process_rap.py has ended
MainStart ==
    /\ pcMain = "idle"
    /\ RapTerminal
    /\ pcMain' = "get_rap_crs"
    /\ fsM0' = fs
    /\ UNCHANGED <<world, dirs, fs, fs0, dirs0, requests, rapVars, rap_crs,
                   us_geom, cells, loaded, filtered>>

\* rap_crs = get_rap_crs(); xr.open_dataset raises when RAP_FILE is missing
MainGetRapCrs ==
    /\ pcMain = "get_rap_crs"
    /\ IF world.nc = Absent
       THEN MainFail
       ELSE /\ rap_crs' = get_rap_crs(world.nc)
            /\ pcMain' = "states"
            /\ UNCHANGED <<fsM0, us_geom, cells, loaded, filtered>>
    /\ UNCHANGED <<world, dirs, fs, fs0, dirs0, requests, rapVars>>

\* states = download_shapefile(US_STATES_URL); the state filter;
\* states_lcc = convert_to_lcc(states, rap_crs);
\* us_geom = unary_union(states_lcc.geometry)
MainStates ==
    /\ pcMain = "states"
    /\ requests' = requests \cup {"GET states"}
    /\ \/ /\ dirs' = dirs \cup {"tmp_us_states"}
          /\ us_geom' = [geom |-> world.us, crs |-> rap_crs]
          /\ pcMain' = "save_borders"
          /\ UNCHANGED <<fsM0, rap_crs, cells, loaded, filtered>>
       \/ /\ MainFail
          /\ UNCHANGED dirs
    /\ UNCHANGED <<world, fs, fs0, dirs0, rapVars>>

\* save_borders(states_lcc): open(OUTPUT_BORDERS, "w") creates or truncates
\* the file (FileNotFoundError without its directory)
MainOpenBorders ==
    /\ pcMain = "save_borders"
    /\ IF MAP_DIR \in dirs
       THEN /\ fs' = [fs EXCEPT ![OUTPUT_BORDERS] = Empty]
            /\ pcMain' = "dump_borders"
            /\ UNCHANGED <<fsM0, rap_crs, us_geom, cells, loaded, filtered>>
       ELSE /\ MainFail
            /\ UNCHANGED fs
    /\ UNCHANGED <<world, dirs, fs0, dirs0, requests, rapVars>>

\* json.dump(geojson, f)
MainDumpBorders ==
    /\ pcMain = "dump_borders"
    /\ fs' = [fs EXCEPT ![OUTPUT_BORDERS] =
                [kind |-> "json", doc |-> [borders |-> us_geom]]]
    /\ pcMain' = "load_cells"
    /\ UNCHANGED <<world, dirs, fs0, dirs0, requests, rapVars, fsM0, rap_crs,
                   us_geom, cells, loaded, filtered>>

\* cells = load_cells(): open(INPUT_CELLS) raises when the file is missing,
\* json.load when it is not a JSON document
MainLoadCells ==
    /\ pcMain = "load_cells"
    /\ IF fs[INPUT_CELLS].kind = "json"
       THEN /\ cells' = fs[INPUT_CELLS].doc.features
            /\ loaded' = fs[INPUT_CELLS].doc.features
            /\ pcMain' = "filter_cells"
            /\ UNCHANGED <<fsM0, rap_crs, us_geom, filtered>>
       ELSE MainFail
    /\ UNCHANGED <<world, dirs, fs, fs0, dirs0, requests, rapVars>>

\* cells = filter_cells(cells, us_geom)
MainFilterCells ==
    /\ pcMain = "filter_cells"
    /\ cells' = filter_cells(cells, us_geom.geom)
    /\ filtered' = filter_cells(cells, us_geom.geom)
    /\ pcMain' = "highlight"
    /\ UNCHANGED <<world, dirs, fs, fs0, dirs0, requests, rapVars, fsM0,
                   rap_crs, us_geom, loaded>>

\* cells = highlight_dallas(cells, rap_crs)
MainHighlight ==
    /\ pcMain = "highlight"
    /\ cells' = highlight_dallas(cells, world.dallas)
    /\ pcMain' = "save_cells"
    /\ UNCHANGED <<world, dirs, fs, fs0, dirs0, requests, rapVars, fsM0,
                   rap_crs, us_geom, loaded, filtered>>

\* save_cells(cells): open(OUTPUT_CELLS, "w")
MainOpenCells ==
    /\ pcMain = "save_cells"
    /\ fs' = [fs EXCEPT ![OUTPUT_CELLS] = Empty]
    /\ pcMain' = "dump_cells"
    /\ UNCHANGED <<world, dirs, fs0, dirs0, requests, rapVars, fsM0, rap_crs,
                   us_geom, cells, loaded, filtered>>

\* json.dump(geojson, f)
MainDumpCells ==
    /\ pcMain = "dump_cells"
    /\ fs' = [fs EXCEPT ![OUTPUT_CELLS] =
                [kind |-> "json",
                 doc |-> [type |-> "FeatureCollection", features |-> cells]]]
    /\ pcMain' = "done"
    /\ UNCHANGED <<world, dirs, fs0, dirs0, requests, rapVars, fsM0, rap_crs,
                   us_geom, cells, loaded, filtered>>

MainNext ==
    \/ MainStart \/ MainGetRapCrs \/ MainStates \/ MainOpenBorders
    \/ MainDumpBorders \/ MainLoadCells \/ MainFilterCells \/ MainHighlight
    \/ MainOpenCells \/ MainDumpCells

\* ------------------------------------------------------------ the world
\* projparams of a GRIB message: without a and b, on another sphere, for
\* another grid, and without lat_1
ParamsA == [lat_1 |-> 50, lat_2 |-> 50, lat_0 |-> 50, lon_0 |-> 253]
ParamsB == [lat_1 |-> 50, lat_2 |-> 50, lat_0 |-> 50, lon_0 |-> 253,
            a |-> 6367470, b |-> 6367470]
ParamsC == [lat_1 |-> 25, lat_2 |-> 25, lat_0 |-> 25, lon_0 |-> 265,
            a |-> 6371229, b |-> 6371229]
ParamsBad == [lat_2 |-> 50, lat_0 |-> 50, lon_0 |-> 253]

\* the LambertConformal_Projection variable of RAP_FILE
NcA == [standard_parallel |-> <<50, 50>>,
        latitude_of_projection_origin |-> 50,
        longitude_of_central_meridian |-> 253]
NcC == [standard_parallel |-> <<25, 25>>,
        latitude_of_projection_origin |-> 25,
        longitude_of_central_meridian |-> 265]

AllVars == {"cape", "cin", "hlcy"}

BaseGrib ==
    [vars |-> AllVars, params |-> ParamsA, rows |-> 2, cols |-> 2,
     sx |-> 1, sy |-> 1,
     cape |-> <<Num(3000), NaN>>, cin |-> <<Num(-300), Num(0)>>,
     hlcy |-> <<Num(500), NaN>>]

Steps == {-1, 0, 1}

Squares ==
    {box(ox, oy, ox + s, oy + s) :
        ox \in -MaxOff .. MaxOff, oy \in -MaxOff .. MaxOff, s \in {1, 2}}

DiagSquares ==
    {box(o, o, o + s, o + s) : o \in -MaxOff - 1 .. MaxOff, s \in {1, 2}}

DallasPoints == {<<1, 1>>, <<2, 1>>, <<3, 3>>}

CapeValues == {NaN, Num(0), Num(3000), Num(30000)}
CinValues == {NaN, Num(0), Num(-300)}
HlcyValues == {NaN, Num(0), Num(500)}

BaseWorld ==
    [status |-> 200, grib |-> BaseGrib, conus |-> box(0, 0, 2, 2),
     us |-> box(0, 0, 2, 2), dallas |-> <<2, 1>>, nc |-> NcA]

NoFiles == [p \in Paths |-> Absent]

\* a document a previous run of process_rap.py (or of a sibling script) left
OldDoc(cs) ==
    [kind |-> "json",
     doc |-> [forecast |-> "F01", projection |-> ParamsC, features |-> cs]]

OldProb == [p |-> "open", logit |-> -920000]

\* cells as process_rap.py writes them, and cells without dx and dy
OldCells ==
    {[x |-> cx, y |-> 0, dx |-> 1, dy |-> 1, prob |-> OldProb] :
        cx \in 0 .. 2}
    \cup {[x |-> cx, y |-> 0, prob |-> OldProb] : cx \in 0 .. 2}

RECURSIVE SeqsUpTo(_, _)
SeqsUpTo(S, n) ==
    IF n = 0 THEN {<<>>}
    ELSE LET shorter == SeqsUpTo(S, n - 1)
         IN  shorter \cup {Append(q, e) : q \in shorter, e \in S}

OldFiles(cs) ==
    [p \in Paths |->
        IF p = OUTPUT_JSON THEN OldDoc(cs)
        ELSE IF p = GRIB_PATH THEN Absent
        ELSE [kind |-> "json", doc |-> [old |-> TRUE]]]

\* the surroundings a run starts in
StartWith(w, d, f) ==
    /\ world = w
    /\ dirs = d /\ dirs0 = d
    /\ fs = f /\ fs0 = f /\ fsM0 = f

\* the pipeline and its failures
StartsPipeline ==
    \/ \E st \in {200, 403, 404},
          pr \in {ParamsA, ParamsB, ParamsC, ParamsBad},
          vs \in {AllVars, {"cape", "cin"}},
          nc \in {NcA, NcC},
          ds \in {{MAP_DIR}, {DATA_DIR, MAP_DIR}},
          f \in {NoFiles, OldFiles(<<>>)} :
            StartWith([BaseWorld EXCEPT !.status = st, !.grib.params = pr,
                                        !.grib.vars = vs, !.nc = nc],
                      ds, f)
    \/ \E st \in {200, 404}, ds \in {{}, {MAP_DIR}} :
            StartWith([BaseWorld EXCEPT !.status = st, !.nc = Absent],
                      ds, NoFiles)

\* the grids and the regions
StartsGrid ==
    \E r \in 1 .. MaxRows, c \in 1 .. MaxCols, sx \in Steps, sy \in Steps,
       sq \in Squares :
        StartWith([BaseWorld EXCEPT !.grib.rows = r, !.grib.cols = c,
                                    !.grib.sx = sx, !.grib.sy = sy,
                                    !.conus = sq, !.us = sq],
                  {MAP_DIR}, NoFiles)

\* the cell lists found at INPUT_CELLS
StartsCells ==
    \E sq \in DiagSquares, d \in DallasPoints,
       cs \in SeqsUpTo(OldCells, MaxCells) :
        StartWith([BaseWorld EXCEPT !.status = 404, !.us = sq, !.dallas = d],
                  {DATA_DIR, MAP_DIR}, OldFiles(cs))

\* the field values
StartsFields ==
    \E c1 \in CapeValues, c2 \in CapeValues, n1 \in CinValues,
       n2 \in CinValues, h1 \in HlcyValues, h2 \in HlcyValues :
        StartWith([BaseWorld EXCEPT !.grib.rows = 1, !.grib.cols = 2,
                                    !.grib.cape = <<c1, c2>>,
                                    !.grib.cin = <<n1, n2>>,
                                    !.grib.hlcy = <<h1, h2>>,
                                    !.nc = Absent],
                  {MAP_DIR}, NoFiles)

Init ==
    /\ StartsPipeline \/ StartsGrid \/ StartsCells \/ StartsFields
    /\ requests = {}
    /\ pcRap = "start"
    /\ exit_code = -1
    /\ cape = <<>> /\ cin = <<>> /\ hlcy = <<>>
    /\ params = Unset /\ proj_lcc = Unset
    /\ x_vals = <<>> /\ y_vals = <<>>
    /\ linear = <<>> /\ prob = <<>>
    /\ conus_lcc = Unset
    /\ features = <<>> /\ feat_idx = <<>>
    /\ n_done = 0 /\ dx = 0 /\ dy = 0
    /\ pcMain = "idle"
    /\ rap_crs = Unset /\ us_geom = Unset
    /\ cells = <<>> /\ loaded = <<>> /\ filtered = <<>>

Next == RapNext \/ MainNext

Spec == Init /\ [][Next]_vars

\* ------------------------------------------------------------ claims
Unwritten(path, before) == fs[path] = before[path]

\* C1: a run that fails has not created, truncated or partially written
\* any output file; an output file is written only by a run that completes
C1_NoOutputFromFailedRun ==
    /\ pcRap = "failed" => Unwritten(OUTPUT_JSON, fs0)
    /\ pcMain = "failed" =>
          /\ Unwritten(OUTPUT_BORDERS, fsM0)
          /\ Unwritten(OUTPUT_CELLS, fsM0)

\* C2 as stated: when the HEAD status is not 200 the run ends not ready
\* with exit status 0 and nothing at all is changed
C2_NotReadyChangesNothing ==
    world.status # 200 =>
        /\ pcRap \in {"start", "check", "not_ready"}
        /\ pcRap = "not_ready" => exit_code = 0
        /\ requests \cap {"GET rap", "GET countries", "GET lakes"} = {}
        /\ (pcRap = "not_ready" /\ pcMain = "idle") =>
              /\ fs = fs0
              /\ dirs = dirs0

\* C2 amended: when the HEAD status is not 200 the run ends not ready with
\* exit status 0, no file is changed and nothing is downloaded; the only
\* change is that the directories data and map/data exist afterwards
C2_NotReadyChangesNoFile ==
    world.status # 200 =>
        /\ pcRap \in {"start", "check", "not_ready"}
        /\ pcRap = "not_ready" => exit_code = 0
        /\ requests \cap {"GET rap", "GET countries", "GET lakes"} = {}
        /\ (pcRap = "not_ready" /\ pcMain = "idle") =>
              /\ fs = fs0
              /\ dirs = dirs0 \cup {DATA_DIR, MAP_DIR}

\* C2 witness: a not-ready run that left an earlier output file as it was
\* and created a directory
C2_Witness ==
    /\ pcRap = "not_ready"
    /\ exit_code = 0
    /\ pcMain = "idle"
    /\ fs[OUTPUT_JSON].kind = "json"
    /\ fs = fs0
    /\ dirs # dirs0

\* C3: whenever cells have been tested against a boundary, the cells and
\* the boundary were projected under the same configuration
C3_SameProjection ==
    /\ (pcRap \in {"filter", "dump", "done"} /\ n_done > 0) =>
          conus_lcc.crs = proj_lcc
    /\ pcMain \in {"highlight", "save_cells", "dump_cells", "done"} =>
          us_geom.crs = Proj(fsM0[INPUT_CELLS].doc.projection)

LexLess(a, b) == a[1] < b[1] \/ (a[1] = b[1] /\ a[2] < b[2])

\* C4: the features are the kept cells in row-major order of the grid, one
\* feature at most per grid index, and the list written is that list
C4_RowMajorOrder ==
    /\ pcRap \in {"filter", "dump", "done"} =>
          /\ Len(features) = Len(feat_idx)
          /\ \A p, q \in 1 .. Len(feat_idx) :
                p < q <=> LexLess(feat_idx[p], feat_idx[q])
          /\ \A p \in 1 .. Len(feat_idx) :
                /\ features[p].x = x_vals[feat_idx[p][1]][feat_idx[p][2]]
                /\ features[p].y = y_vals[feat_idx[p][1]][feat_idx[p][2]]
    /\ pcRap = "done" => fs[OUTPUT_JSON].doc.features = features

\* C4 witness: a finished run that kept cells of two rows and two columns
C4_Witness ==
    /\ pcRap = "done"
    /\ Len(fs[OUTPUT_JSON].doc.features) >= 3
    /\ \E p, q \in 1 .. Len(feat_idx) : feat_idx[p][1] # feat_idx[q][1]
    /\ \E p, q \in 1 .. Len(feat_idx) : feat_idx[p][2] # feat_idx[q][2]

\* a grid with at least two rows and two columns whose neighbouring points
\* differ in x along a row and in y along a column
NonDegenerate ==
    /\ Rows >= 2 /\ Cols >= 2
    /\ \A i \in 0 .. Rows - 1 : \A j \in 0 .. Cols - 2 :
          x_vals[i][j] # x_vals[i][j + 1]
    /\ \A i \in 0 .. Rows - 2 : \A j \in 0 .. Cols - 1 :
          y_vals[i][j] # y_vals[i + 1][j]

\* C5: on a non-degenerate grid every cell of the loop has dx > 0 and
\* dy > 0, the cells of the last column and the last row included
C5_PositiveExtent ==
    (pcRap \in {"filter", "dump", "done"} /\ NonDegenerate) =>
        /\ n_done > 0 => (dx > 0 /\ dy > 0)
        /\ \A p \in 1 .. Len(features) :
              features[p].dx > 0 /\ features[p].dy > 0

\* C5 witness: the loop has just handled the cell of the last row and the
\* last column of a non-degenerate grid whose x decreases along a row
C5_Witness ==
    /\ pcRap = "filter"
    /\ NonDegenerate
    /\ n_done = Rows * Cols
    /\ x_vals[0][1] < x_vals[0][0]
    /\ dx > 0 /\ dy > 0

Range(q) == {q[k] : k \in DOMAIN q}

\* every cell of the grid, in loop order
AllCells == [n \in 1 .. Rows * Cols |-> loop_cell(n - 1)]

LoopOver == pcRap \in {"dump", "done"}

\* what each policy keeps of the same cells against the same region
StrictKept == Range(features)
IntersectionKept == Range(filter_cells(AllCells, conus_lcc.geom))

\* the centre of a cell's box lies strictly inside the region (doubled)
CentreInside(c, g) ==
    /\ 2 * g.x1 < 2 * c.x + c.dx /\ 2 * c.x + c.dx < 2 * g.x2
    /\ 2 * g.y1 < 2 * c.y + c.dy /\ 2 * c.y + c.dy < 2 * g.y2

Max(a, b) == IF a >= b THEN a ELSE b

\* the box of a cell and the region have a point in common: then the
\* componentwise larger of their lower-left corners is one
BoxMeets(c, g) ==
    LET w == Get(c, "dx", 13545)
        h == Get(c, "dy", 13545)
        px == Max(c.x, g.x1)
        py == Max(c.y, g.y1)
    IN  /\ c.x <= px /\ px <= c.x + w /\ g.x1 <= px /\ px <= g.x2
        /\ c.y <= py /\ py <= c.y + h /\ g.y1 <= py /\ py <= g.y2

\* C6 as stated: the strict policy keeps a strict subset of what the
\* intersection policy keeps, for a square region on a regular grid (here
\* one on which the strict policy keeps at least one cell)
C6_StrictSubset ==
    (LoopOver /\ NonDegenerate /\ StrictKept # {}) =>
        /\ StrictKept \subseteq IntersectionKept
        /\ StrictKept # IntersectionKept

\* C6 amended: the strict policy keeps a subset of what the intersection
\* policy keeps; the cells kept by intersection only are those whose box
\* meets the region while its centre is not strictly inside, and there
\* may be none
C6_Subset ==
    LoopOver =>
        /\ StrictKept \subseteq IntersectionKept
        /\ IntersectionKept \ StrictKept =
              {c \in Range(AllCells) :
                  BoxMeets(c, conus_lcc.geom)
                  /\ ~CentreInside(c, conus_lcc.geom)}

\* C6 witness: both policies keep something and intersection keeps more
C6_Witness ==
    /\ LoopOver
    /\ NonDegenerate
    /\ StrictKept # {}
    /\ StrictKept \subseteq IntersectionKept
    /\ IntersectionKept \ StrictKept # {}

\* the grid and region of the 3x3 example: unit spacing (x growing along a
\* row, y along a column), the region the square reaching one grid step on
\* each side of the centre point
ThreeByThree ==
    /\ Rows = 3 /\ Cols = 3
    /\ \A i \in 0 .. 2 : \A j \in 0 .. 1 :
          x_vals[i][j + 1] - x_vals[i][j] = 1
    /\ \A i \in 0 .. 1 : \A j \in 0 .. 2 :
          y_vals[i + 1][j] - y_vals[i][j] = 1
    /\ conus_lcc.geom = box(x_vals[1][1] - 1, y_vals[1][1] - 1,
                            x_vals[1][1] + 1, y_vals[1][1] + 1)

Points(S) == {<<c.x, c.y>> : c \in S}

\* C7: on the 3x3 example the strict policy keeps the centre cell only and
\* the intersection policy the centre and its 4 edge neighbours
C7_ThreeByThreeExample ==
    (LoopOver /\ ThreeByThree) =>
        LET cx == x_vals[1][1]
            cy == y_vals[1][1]
        IN  /\ Len(features) = 1
            /\ Points(StrictKept) = {<<cx, cy>>}
            /\ Len(filter_cells(AllCells, conus_lcc.geom)) = 5
            /\ Points(IntersectionKept) =
                  {<<cx, cy>>, <<cx - 1, cy>>, <<cx + 1, cy>>,
                   <<cx, cy - 1>>, <<cx, cy + 1>>}

PastProb ==
    pcRap \in {"shapefiles", "mask", "filter", "dump", "done"}

\* C8: the argument of the exponential is inside [-60, 60] for every cell
\* and the probability lies strictly between 0 and 1
C8_ClampedArgument ==
    PastProb =>
        \A i \in DOMAIN linear : \A j \in DOMAIN linear[i] :
            /\ -60 * Million <= linear[i][j]
            /\ linear[i][j] <= 60 * Million
            /\ prob[i][j].p = "open"

PastHighlight == pcMain \in {"save_cells", "dump_cells", "done"}

\* four times the squared distance from the centre of a cell's box to the
\* projected Dallas point
CentreDist(c) ==
    LET ex == 2 * c.x + Get(c, "dx", 13545) - world.dallas[1]
        ey == 2 * c.y + Get(c, "dy", 13545) - world.dallas[2]
    IN  ex * ex + ey * ey

\* the first index of q whose cell is nearest to Dallas
FirstNearest(q) ==
    CHOOSE k \in 1 .. Len(q) :
        /\ \A m \in 1 .. Len(q) : CentreDist(q[k]) <= CentreDist(q[m])
        /\ \A m \in 1 .. k - 1 : CentreDist(q[m]) > CentreDist(q[k])

PastFilter == pcMain \in {"highlight", "save_cells", "dump_cells", "done"}

\* the indices of the cells of q whose box meets the region
MeetingIndices(q) == {k \in 1 .. Len(q) : BoxMeets(q[k], us_geom.geom)}

\* the n-th smallest element of a set of numbers
Nth(K, n) == CHOOSE k \in K : Cardinality({m \in K : m <= k}) = n

\* C10: filter_cells returns, in input order and unmodified, exactly the
\* cells whose box (dx, dy defaulting to 13545) intersects the region, and
\* filtering its result again changes nothing
C10_FilterCells ==
    PastFilter =>
        LET K == MeetingIndices(loaded)
        IN  /\ Len(filtered) = Cardinality(K)
            /\ \A n \in 1 .. Len(filtered) : filtered[n] = loaded[Nth(K, n)]
            /\ filter_cells(filtered, us_geom.geom) = filtered

\* C10 witness: of three loaded cells the middle one was dropped, and a
\* kept cell only touches the region's boundary
C10_Witness ==
    /\ PastFilter
    /\ Len(loaded) = 3
    /\ filtered = <<loaded[1], loaded[3]>>
    /\ \E n \in 1 .. Len(filtered) :
          "dx" \in DOMAIN filtered[n]
          /\ filtered[n].x = us_geom.geom.x2

====
